---- MODULE Spec2Model ----
(***************************************************************************)
(* Model of the connector package: connector/db.py (connection-string      *)
(* builder and engine manager), connector/core.py (Connector and           *)
(* AutoConnector) and connector/utils.py (configuration loading).          *)
(*                                                                         *)
(* A Python str is a sequence of one-character strings, so that            *)
(* str.replace, str.lower and str.format are computed character by         *)
(* character.  None is the one-element sequence <<"None">>, which no str   *)
(* of the model equals (every str element is a single character).          *)
(***************************************************************************)
EXTENDS Naturals, Sequences, FiniteSets, TLC

VARIABLES
  bArgs,   \* the credential set handed to create_connection_string
  bRes,    \* what the latest call of create_connection_string did
  bCalls,  \* how many times create_connection_string was called with bArgs
  fs,      \* the .env files on disk, by path
  env,     \* os.environ: the process environment, shared by every AutoConnector
  conn,    \* self.engine of the Connector constructed last, or NoConnector
  op,      \* the latest public call: its name, its arguments and what it did
  trace    \* the calls the latest public call made, in order, with their outcomes

vars == <<bArgs, bRes, bCalls, fs, env, conn, op, trace>>

(***************************************************************************)
(* Bounds                                                                  *)
(***************************************************************************)
MaxDriverLen == 2

MaxCalls == 2

(***************************************************************************)
(* Python values                                                           *)
(***************************************************************************)
None == <<"None">>

\* Python truthiness of an Optional[str]: `not s` holds for None and for "".
Falsy(s) == s = None \/ s = <<>>

\* What a call does: return a value or raise an exception of class exc.
\* context is the exception being handled when this one was raised (__context__).
Return(v) == [tag |-> "return", val |-> v, exc |-> "", why |-> "", context |-> ""]

RaiseFrom(cls, reason, ctx) ==
  [tag |-> "raise", val |-> <<>>, exc |-> cls, why |-> reason, context |-> ctx]

Raise(cls, reason) == RaiseFrom(cls, reason, "")

RECURSIVE StrsUpTo(_, _)
StrsUpTo(chars, n) ==
  IF n = 0 THEN {<<>>}
  ELSE LET shorter == StrsUpTo(chars, n - 1)
       IN shorter \cup {Append(s, c) : s \in shorter, c \in chars}

\* str.replace(old, new) for one-character old and new.
Replace(s, old, new) == [i \in 1..Len(s) |-> IF s[i] = old THEN new ELSE s[i]]

UpperCase == <<"A","B","C","D","E","F","G","H","I","J","K","L","M",
               "N","O","P","Q","R","S","T","U","V","W","X","Y","Z">>

LowerCase == <<"a","b","c","d","e","f","g","h","i","j","k","l","m",
               "n","o","p","q","r","s","t","u","v","w","x","y","z">>

LowerChar(c) ==
  IF \E i \in 1..Len(UpperCase) : UpperCase[i] = c
  THEN LowerCase[CHOOSE i \in 1..Len(UpperCase) : UpperCase[i] = c]
  ELSE c

\* str.lower()
Lower(s) == [i \in 1..Len(s) |-> LowerChar(s[i])]

(***************************************************************************)
(* str.format with keyword arguments kw, as CPython's MarkupIterator scans *)
(* the format string: "{{" and "}}" are escapes, "{name}" is looked up in kw, anything else   *)
(* with a brace is an error.  Field names here never hold '.', '[', '!'    *)
(* or ':' (none is in the model's alphabets), so a field name is a plain   *)
(* keyword: the empty name is positional auto-numbering (IndexError, no    *)
(* positional arguments are passed), an unknown name is a KeyError.        *)
(***************************************************************************)
\* The least element of a set of positions, or 0 when it is empty.
First(positions) ==
  IF positions = {} THEN 0 ELSE CHOOSE k \in positions : \A m \in positions : k <= m

\* The first brace of fmt at or after i, or 0 when there is none.
NextBrace(fmt, i) == First({k \in i..Len(fmt) : fmt[k] \in {"{", "}"}})

RECURSIVE FormatFrom(_, _, _, _)
\* The replacement field that opens at fmt[i] and closes at fmt[j] (j = 0: never).
FormatField(fmt, i, j, name, kw, acc) ==
  IF j = 0 THEN Raise("ValueError", "expected '}' before end of string")
  ELSE IF fmt[j] = "{" THEN Raise("ValueError", "unexpected '{' in field name")
  ELSE IF name = <<>> THEN Raise("IndexError", "Replacement index 0 out of range")
  ELSE IF name \in DOMAIN kw THEN FormatFrom(fmt, j + 1, kw, acc \o kw[name])
  ELSE Raise("KeyError", "field name")

\* The markup at the brace fmt[b], after the literal text fmt[i..b-1].
FormatMarkup(fmt, b, kw, acc) ==
  IF fmt[b] = "}" THEN
    IF b < Len(fmt) /\ fmt[b + 1] = "}"
    THEN FormatFrom(fmt, b + 2, kw, Append(acc, "}"))
    ELSE Raise("ValueError", "Single '}' encountered in format string")
  ELSE IF b = Len(fmt)
  THEN Raise("ValueError", "Single '{' encountered in format string")
  ELSE IF fmt[b + 1] = "{"
  THEN FormatFrom(fmt, b + 2, kw, Append(acc, "{"))
  ELSE FormatField(fmt, b, NextBrace(fmt, b + 1),
                   SubSeq(fmt, b + 1, NextBrace(fmt, b + 1) - 1), kw, acc)

FormatLiteral(fmt, i, b, kw, acc) ==
  IF b = 0 THEN Return(acc \o SubSeq(fmt, i, Len(fmt)))
  ELSE FormatMarkup(fmt, b, kw, acc \o SubSeq(fmt, i, b - 1))

FormatFrom(fmt, i, kw, acc) == FormatLiteral(fmt, i, NextBrace(fmt, i), kw, acc)

Format(fmt, kw) == FormatFrom(fmt, 1, kw, <<>>)

(***************************************************************************)
(* connector/db.py: create_connection_string                               *)
(***************************************************************************)
Postgresql == <<"p","o","s","t","g","r","e","s","q","l">>

Mssql == <<"m","s","s","q","l">>

KwUsername == <<"u","s","e","r","n","a","m","e">>

KwPassword == <<"p","a","s","s","w","o","r","d">>

KwServer == <<"s","e","r","v","e","r">>

KwDatabase == <<"d","a","t","a","b","a","s","e">>

\* "{username}:{password}@{server}/{database}"
CredentialsFormat ==
  <<"{">> \o KwUsername \o <<"}", ":", "{">> \o KwPassword \o <<"}", "@", "{">>
  \o KwServer \o <<"}", "/", "{">> \o KwDatabase \o <<"}">>

PostgresScheme == Postgresql \o <<":", "/", "/">>

MssqlScheme == Mssql \o <<"+","p","y","o","d","b","c",":","/","/">>

DriverQuery == <<"?","d","r","i","v","e","r","=">>

PostgresFormat == PostgresScheme \o CredentialsFormat

\* "mssql+pyodbc://{username}:...{database}" + f"?driver={driver_string}"
MssqlFormat(driver_string) == MssqlScheme \o CredentialsFormat \o DriverQuery \o driver_string

FormatKwargs_Swapped(db_server, db_database, db_username, db_password) ==
  (KwUsername :> db_password) @@ (KwPassword :> db_username)
  @@ (KwServer :> db_server) @@ (KwDatabase :> db_database)

\* .format(username=db_username, password=db_password, server=db_server,
\* database=db_database)
FormatKwargs(db_server, db_database, db_username, db_password) ==
  (KwUsername :> db_username) @@ (KwPassword :> db_password)
  @@ (KwServer :> db_server) @@ (KwDatabase :> db_database)

IsPostgresql(db_type) == db_type = Postgresql

IsMssql_AnyCase(db_type) == Lower(db_type) = Mssql

IsMssql(db_type) == db_type = Mssql

DriverMissing_NoneOnly(driver) == driver = None

\* `if not driver`
DriverMissing(driver) == Falsy(driver)

create_connection_string(db_type, db_server, db_database, db_username, db_password, driver) ==
  LET kw == FormatKwargs(db_server, db_database, db_username, db_password)
  IN IF IsPostgresql(db_type) THEN Format(PostgresFormat, kw)
     ELSE IF IsMssql(db_type) THEN
       IF DriverMissing(driver)
       THEN Raise("ValueError", "A driver is required for MSSQL connections.")
       ELSE Format(MssqlFormat(Replace(driver, " ", "+")), kw)
     ELSE Raise("ValueError", "Unsupported database type")

(***************************************************************************)
(* The underlying SQL client (sqlalchemy, pandas).  Each call of it either *)
(* succeeds ("ok") or raises an exception of some class.  OperationalError *)
(* is a subclass of SQLAlchemyError (an unreachable host, a rejected       *)
(* login); ImportError is not (create_engine raises it when the DBAPI      *)
(* module of the URL's dialect is not installed) and stands for every      *)
(* class outside the SQLAlchemyError hierarchy.                            *)
(***************************************************************************)
ClientExceptions == {"OperationalError", "ImportError"}

ClientOutcomes == {"ok"} \cup ClientExceptions

\* isinstance(e, SQLAlchemyError): what `except SQLAlchemyError` catches.
IsSQLAlchemyError(cls) == cls \in {"SQLAlchemyError", "OperationalError"}

\* One call made while serving a public call: the callee, its argument, its outcome.
Ev(fn, arg, out) == [fn |-> fn, arg |-> arg, out |-> out]

Engine(url) == [url |-> url]

(***************************************************************************)
(* connector/db.py: create_db_engine                                       *)
(***************************************************************************)
EmptyConnectionString_NoneOnly(connection_string) == connection_string = None

\* `if not connection_string`
EmptyConnectionString(connection_string) == Falsy(connection_string)

TrialConnection_Retry(url, oc) ==
  IF oc.connect # "ok"
  THEN [trace |-> <<Ev("connect", url, oc.connect), Ev("connect", url, oc.connect)>>,
        exc |-> oc.connect]
  ELSE [trace |-> <<Ev("connect", url, "ok"), Ev("close", url, oc.close)>>,
        exc |-> oc.close]

\* engine.connect().close(): close is reached only when connect returned.
TrialConnection(url, oc) ==
  IF oc.connect # "ok"
  THEN [trace |-> <<Ev("connect", url, oc.connect)>>, exc |-> oc.connect]
  ELSE [trace |-> <<Ev("connect", url, "ok"), Ev("close", url, oc.close)>>,
        exc |-> oc.close]

\* create_engine(connection_string), then the trial connection.
CreateAndTry(url, oc, trial) ==
  IF oc.create_engine # "ok"
  THEN [trace |-> <<Ev("create_engine", url, oc.create_engine)>>,
        exc |-> oc.create_engine]
  ELSE [trace |-> <<Ev("create_engine", url, "ok")>> \o trial.trace, exc |-> trial.exc]

\* The body of the try block.
TryCreateEngine(url, oc) == CreateAndTry(url, oc, TrialConnection(url, oc))

\* How the try block ends: `return engine`, the except clause that re-raises a
\* SQLAlchemyError as a new SQLAlchemyError, or the exception passing through.
EndOfTry(connection_string, t) ==
  [res |-> IF t.exc = "ok" THEN Return(Engine(connection_string))
           ELSE IF IsSQLAlchemyError(t.exc)
           THEN RaiseFrom("SQLAlchemyError", "Failed to create database engine", t.exc)
           ELSE Raise(t.exc, "raised by the client"),
   trace |-> t.trace]

create_db_engine(connection_string, oc) ==
  IF EmptyConnectionString(connection_string)
  THEN [res |-> Raise("ValueError", "The connection string cannot be empty."),
        trace |-> <<>>]
  ELSE EndOfTry(connection_string, TryCreateEngine(connection_string, oc))

(***************************************************************************)
(* connector/db.py: create_connection; connector/core.py: Connector        *)
(***************************************************************************)
\* create_connection once the builder has returned or raised b.
OpenBuilt(a, b, oc) ==
  IF b.tag = "raise"
  THEN [res |-> b, trace |-> <<Ev("create_connection_string", a, "raise")>>]
  ELSE [res |-> create_db_engine(b.val, oc).res,
        trace |-> <<Ev("create_connection_string", a, "return")>>
                  \o create_db_engine(b.val, oc).trace]

create_connection(a, oc) ==
  OpenBuilt(a, create_connection_string(a.db_type, a.db_server, a.db_database,
                                        a.db_username, a.db_password, a.driver), oc)

\* pd.read_sql_query(query, self.engine, params=params) inside try/except.
execute_query(engine, query, params, qo) ==
  [res |-> IF qo = "ok" THEN Return(<<"DataFrame">>)
           ELSE IF IsSQLAlchemyError(qo)
           THEN RaiseFrom("SQLAlchemyError", "An error occurred while executing the query", qo)
           ELSE Raise(qo, "raised by the client"),
   trace |-> <<Ev("read_sql_query", [sql |-> query, con |-> engine, params |-> params], qo)>>]

(***************************************************************************)
(* connector/utils.py: load_dotenv_file, load_env_var                      *)
(* connector/core.py: AutoConnector                                        *)
(*                                                                         *)
(* The process environment and a .env file map each variable to a str, or  *)
(* to None when the variable is unset.                                     *)
(***************************************************************************)
EnvVars == {"CONNECTOR_DB_TYPE", "CONNECTOR_DB_SERVER", "CONNECTOR_DB_DATABASE",
            "CONNECTOR_DB_USERNAME", "CONNECTOR_DB_PASSWORD", "CONNECTOR_DB_DRIVER"}

EmptyEnv == [v \in EnvVars |-> None]

\* A path at which os.path.exists is false.
MissingFile == [exists |-> FALSE, vars |-> EmptyEnv]

\* dotenv.load_dotenv(dotenv_path=file_path), override left at its default
\* False: a variable the environment already holds keeps its value.
load_dotenv(e, file) ==
  [v \in EnvVars |-> IF e[v] # None THEN e[v] ELSE file.vars[v]]

\* os.getenv(variable), and the failure when it is None.
load_env_var(e, variable) ==
  IF e[variable] = None
  THEN Raise("EnvironmentVariableNotFoundError", variable)
  ELSE Return(e[variable])

\* The variables AutoConnector.__init__ reads, in the order it reads them: the
\* driver is read only when db_type.lower() == 'mssql'.
VarsRead(e) ==
  <<"CONNECTOR_DB_TYPE", "CONNECTOR_DB_SERVER", "CONNECTOR_DB_DATABASE",
    "CONNECTOR_DB_USERNAME", "CONNECTOR_DB_PASSWORD">>
  \o (IF e["CONNECTOR_DB_TYPE"] # None /\ Lower(e["CONNECTOR_DB_TYPE"]) = Mssql
      THEN <<"CONNECTOR_DB_DRIVER">> ELSE <<>>)

\* The position in vs of the first variable that is unset, or 0.
FirstUnset(e, vs) ==
  IF \E i \in 1..Len(vs) : e[vs[i]] = None
  THEN CHOOSE i \in 1..Len(vs) : e[vs[i]] = None /\ \A j \in 1..(i - 1) : e[vs[j]] # None
  ELSE 0

\* The arguments AutoConnector hands to Connector.__init__.
CredentialsOf(e, vs) ==
  [db_type |-> e["CONNECTOR_DB_TYPE"], db_server |-> e["CONNECTOR_DB_SERVER"],
   db_database |-> e["CONNECTOR_DB_DATABASE"], db_username |-> e["CONNECTOR_DB_USERNAME"],
   db_password |-> e["CONNECTOR_DB_PASSWORD"],
   driver |-> IF Len(vs) = 6 THEN e["CONNECTOR_DB_DRIVER"] ELSE None]

\* The load_env_var calls up to the first that fails (k = 0: none fails).
ReadEvents(e, vs, k) ==
  [i \in 1..(IF k = 0 THEN Len(vs) ELSE k) |->
     Ev("load_env_var", vs[i], IF e[vs[i]] = None THEN "raise" ELSE "return")]

\* AutoConnector.__init__ after load_dotenv_file left e in os.environ.
ReadAndConnect(e, path, vs, k, oc) ==
  IF k # 0
  THEN [env |-> e, res |-> load_env_var(e, vs[k]),
        trace |-> <<Ev("load_dotenv_file", path, "ok")>> \o ReadEvents(e, vs, k)]
  ELSE [env |-> e, res |-> create_connection(CredentialsOf(e, vs), oc).res,
        trace |-> <<Ev("load_dotenv_file", path, "ok")>> \o ReadEvents(e, vs, k)
                  \o create_connection(CredentialsOf(e, vs), oc).trace]

Loaded(e, path, oc) == ReadAndConnect(e, path, VarsRead(e), FirstUnset(e, VarsRead(e)), oc)

\* AutoConnector.__init__(env_file): what it leaves in os.environ, what it
\* does, and the calls it makes.
AutoConnector_init(e, path, file, oc) ==
  IF ~file.exists
  THEN [env |-> e, res |-> Raise("FileNotFoundError", path),
        trace |-> <<Ev("load_dotenv_file", path, "FileNotFoundError")>>]
  ELSE Loaded(load_dotenv(e, file), path, oc)

(***************************************************************************)
(* Inputs                                                                  *)
(***************************************************************************)
DbTypes == {Postgresql, Mssql, <<"p","o","s","t","g","r","e","s">>,
            <<"M","S","S","Q","L">>, <<>>}

FieldValues == {<<"u">>, <<"a", " ", "b">>, <<"{", "x", "}">>, <<"{">>}

DriverChars == {"d", " ", "{", "}"}

OdbcDriver == <<"O","D","B","C"," ","D","r","i","v","e","r"," ","1","7">>

Drivers == StrsUpTo(DriverChars, MaxDriverLen)
           \cup {None, OdbcDriver, <<"{">> \o OdbcDriver \o <<"}">>,
                 <<"{">> \o KwServer \o <<"}">>}

BuildArgs == [db_type : DbTypes, db_server : FieldValues, db_database : FieldValues,
              db_username : FieldValues, db_password : FieldValues, driver : Drivers]

\* The credential sets Connector is constructed with.
ConnectorArgs == [db_type : {Postgresql, Mssql, <<"M","S","S","Q","L">>},
                  db_server : {<<"h">>}, db_database : {<<"a", " ", "b">>},
                  db_username : {<<"u">>}, db_password : {<<"p">>, <<"{", "x", "}">>},
                  driver : {None, <<>>, <<"d", " ", "d">>, <<"{", "d", "}">>}]

\* The connection strings create_db_engine is called with directly.
ConnectionStrings == {None, <<>>, <<"x">>, PostgresScheme \o <<"u",":","p","@","h","/","d">>}

\* What the client does on create_engine, connect and close.  The outcome of a
\* call that is never reached is left "ok": it is not observable.
ClientBehaviours ==
  {oc \in [create_engine : ClientOutcomes, connect : ClientOutcomes, close : ClientOutcomes] :
     /\ oc.create_engine # "ok" => oc.connect = "ok"
     /\ oc.connect # "ok" => oc.close = "ok"}

Queries == {<<"S","E","L","E","C","T"," ","1">>, <<"S","E","L","E","C","T"," ","?">>}

Params == {None, <<"8">>}

NotCalled == [tag |-> "none", val |-> <<>>, exc |-> "", why |-> "", context |-> ""]

NoConnector == [url |-> None]

\* No credential set has been handed to the builder.
NoArgs == [db_type |-> None, db_server |-> None, db_database |-> None,
           db_username |-> None, db_password |-> None, driver |-> None]

NoOp == [name |-> "none", args |-> <<>>, res |-> NotCalled]

\* The .env files: every variable set, or exactly one variable left out.
EnvFiles ==
  {[exists |-> TRUE, vars |-> f] : f \in
     {f \in [CONNECTOR_DB_TYPE : {None, Postgresql, Mssql, <<"M","S","S","Q","L">>},
             CONNECTOR_DB_SERVER : {None, <<"h">>},
             CONNECTOR_DB_DATABASE : {None, <<"a">>},
             CONNECTOR_DB_USERNAME : {None, <<"u">>},
             CONNECTOR_DB_PASSWORD : {None, <<"p">>, <<"q">>},
             CONNECTOR_DB_DRIVER : {None, <<"d", " ", "d">>}] :
        Cardinality({v \in EnvVars : f[v] = None}) <= 1}}

\* The .env files that set every variable.
CompleteFiles == {f \in EnvFiles : \A v \in EnvVars : f.vars[v] # None}

Paths == {"a.env", "b.env", "missing.env"}

NoFiles == [p \in Paths |-> MissingFile]

(***************************************************************************)
(* The builder alone: a credential set, and calls of the builder on it     *)
(***************************************************************************)
Build(a) == create_connection_string(a.db_type, a.db_server, a.db_database,
                                     a.db_username, a.db_password, a.driver)

InitBuild ==
  /\ bArgs \in BuildArgs
  /\ bRes = NotCalled
  /\ bCalls = 0
  /\ fs = NoFiles
  /\ env = EmptyEnv
  /\ conn = NoConnector
  /\ op = NoOp
  /\ trace = <<>>

\* One call of create_connection_string with the credential set bArgs.
CallBuild ==
  /\ bCalls < MaxCalls
  /\ bRes' = Build(bArgs)
  /\ bCalls' = bCalls + 1
  /\ UNCHANGED <<bArgs, fs, env, conn, op, trace>>

NextBuild == CallBuild

SpecBuild == InitBuild /\ [][NextBuild]_vars

(***************************************************************************)
(* The engine manager and the query facade                                 *)
(***************************************************************************)
Init ==
  /\ bArgs = NoArgs
  /\ bRes = NotCalled
  /\ bCalls = 0
  /\ fs = NoFiles
  /\ env = EmptyEnv
  /\ conn = NoConnector
  /\ op = NoOp
  /\ trace = <<>>

\* The latest public call becomes `name(args)`, which did r.
Called(name, args, r) ==
  /\ op' = [name |-> name, args |-> args, res |-> r.res]
  /\ trace' = r.trace

\* A constructor that returned binds the new Connector's engine.
Bound(r) == conn' = IF r.res.tag = "return" THEN r.res.val ELSE conn

\* create_db_engine(connection_string), called directly.
CreateDbEngine(cs, oc) ==
  /\ Called("create_db_engine", cs, create_db_engine(cs, oc))
  /\ UNCHANGED <<bArgs, bRes, bCalls, fs, env, conn>>

\* Connector(db_type, ...): self.engine = create_connection(...).
ConnectorInit(a, oc) ==
  /\ Called("Connector", a, create_connection(a, oc))
  /\ Bound(create_connection(a, oc))
  /\ UNCHANGED <<bArgs, bRes, bCalls, fs, env>>

\* conn.execute_query(query, params) on the Connector constructed last.
ExecuteQuery(query, params, qo) ==
  /\ conn # NoConnector
  /\ Called("execute_query", [query |-> query, params |-> params],
            execute_query(conn, query, params, qo))
  /\ UNCHANGED <<bArgs, bRes, bCalls, fs, env, conn>>

Next ==
  \/ \E cs \in ConnectionStrings, oc \in ClientBehaviours : CreateDbEngine(cs, oc)
  \/ \E a \in ConnectorArgs, oc \in ClientBehaviours : ConnectorInit(a, oc)
  \/ \E q \in Queries, p \in Params, qo \in ClientOutcomes : ExecuteQuery(q, p, qo)

Spec == Init /\ [][Next]_vars

(***************************************************************************)
(* The configuration-file entry point: two .env files on disk (a.env sets  *)
(* every variable, b.env may leave one out) and a path with no file, and   *)
(* AutoConnector constructed from them in any order, any number of times,  *)
(* in one process                                                          *)
(***************************************************************************)
InitAuto ==
  /\ bArgs = NoArgs
  /\ bRes = NotCalled
  /\ bCalls = 0
  /\ \E fa \in CompleteFiles, fb \in EnvFiles :
       fs = [p \in Paths |-> IF p = "a.env" THEN fa ELSE IF p = "b.env" THEN fb
                             ELSE MissingFile]
  /\ env = EmptyEnv
  /\ conn = NoConnector
  /\ op = NoOp
  /\ trace = <<>>

\* AutoConnector(env_file): load_dotenv_file has changed os.environ even when
\* a later step raises.
Constructed(path, r) ==
  /\ env' = r.env
  /\ Called("AutoConnector", path, r)
  /\ Bound(r)

AutoConnectorInit(path, oc) ==
  /\ Constructed(path, AutoConnector_init(env, path, fs[path], oc))
  /\ UNCHANGED <<bArgs, bRes, bCalls, fs>>

NextAuto == \E path \in Paths, oc \in ClientBehaviours : AutoConnectorInit(path, oc)

SpecAuto == InitAuto /\ [][NextAuto]_vars


(***************************************************************************)
(* Properties                                                              *)
(***************************************************************************)
\* "user:password@host/database" for the credential set a.
Authority(a) ==
  a.db_username \o <<":">> \o a.db_password \o <<"@">> \o a.db_server
  \o <<"/">> \o a.db_database

\* ValueError("Unsupported database type: ...")
UnsupportedDatabaseKind(r) ==
  r.tag = "raise" /\ r.exc = "ValueError" /\ r.why = "Unsupported database type"

\* ValueError("A driver is required for MSSQL connections.")
MissingDriver(r) ==
  r.tag = "raise" /\ r.exc = "ValueError"
  /\ r.why = "A driver is required for MSSQL connections."

\* C1: for a postgres credential set, whatever its four fields and its driver,
\* every call of the builder returns "postgresql://" followed by
\* username ":" password "@" host "/" database, the fields taken literally;
\* the first call and every repeated call return that same string.
C1_PostgresUri ==
  (bCalls > 0 /\ bArgs.db_type = <<"p","o","s","t","g","r","e","s","q","l">>)
    => bRes = Return(<<"p","o","s","t","g","r","e","s","q","l",":","/","/">>
                     \o Authority(bArgs))

C1_Witness ==
  /\ bCalls >= 2
  /\ bArgs.db_type = Postgresql
  /\ bArgs.db_username = <<"{", "x", "}">>
  /\ bArgs.db_password = <<"a", " ", "b">>
  /\ bArgs.db_server = <<"{">>
  /\ bArgs.driver = OdbcDriver
  /\ bRes.tag = "return"

\* C2: for an mssql credential set with a non-empty driver, whatever characters
\* the fields hold (spaces and braces included), the builder returns
\* "mssql+pyodbc://" user ":" password "@" host "/" database "?driver=" and the
\* driver with each space replaced by '+', the other four fields unmodified.
C2_MssqlUri ==
  (bCalls > 0 /\ bArgs.db_type = <<"m","s","s","q","l">>
   /\ bArgs.driver # None /\ bArgs.driver # <<>>)
    => bRes = Return(<<"m","s","s","q","l","+","p","y","o","d","b","c",":","/","/">>
                     \o Authority(bArgs) \o <<"?","d","r","i","v","e","r","=">>
                     \o [i \in 1..Len(bArgs.driver) |->
                           IF bArgs.driver[i] = " " THEN "+" ELSE bArgs.driver[i]])

\* C3: the builder fails with UnsupportedDatabaseKind exactly when the kind is
\* neither 'postgresql' nor 'mssql', whatever the other fields and the driver.
C3_UnsupportedKind ==
  bCalls > 0 =>
    (UnsupportedDatabaseKind(bRes)
       <=> bArgs.db_type \notin {<<"p","o","s","t","g","r","e","s","q","l">>,
                                 <<"m","s","s","q","l">>})

C3_Witness ==
  /\ bCalls > 0
  /\ bArgs.db_type = <<"M","S","S","Q","L">>
  /\ bArgs.driver = OdbcDriver
  /\ UnsupportedDatabaseKind(bRes)

Count(fn) == Cardinality({i \in 1..Len(trace) : trace[i].fn = fn})

\* The calls of the underlying client among the calls made.
ClientCalls == {i \in 1..Len(trace) :
                  trace[i].fn \in {"create_engine", "connect", "close", "read_sql_query"}}

\* SQLAlchemyError raised while handling an exception of class cause.
Wraps(r, cause) == r.tag = "raise" /\ r.exc = "SQLAlchemyError" /\ r.context = cause

\* C5: create_db_engine called with "" or None raises the ValueError for an
\* empty connection string and calls nothing of the client: no create_engine,
\* no connect.
C5_EmptyRejectedFirst ==
  (op.name = "create_db_engine" /\ (op.args = None \/ op.args = <<>>))
    => /\ op.res.tag = "raise"
       /\ op.res.exc = "ValueError"
       /\ op.res.why = "The connection string cannot be empty."
       /\ ClientCalls = {}

C5_Witness ==
  /\ op.name = "create_db_engine"
  /\ op.args = <<>>
  /\ op.res.exc = "ValueError"
  /\ trace = <<>>

\* C6: create_db_engine returns an engine only after create_engine, connect
\* and close all succeeded, and whenever the client raises anything in one of
\* the three the caller gets SQLAlchemyError carrying that exception, and no
\* engine.
C6_ValidatedOrConnectionError ==
  op.name = "create_db_engine" =>
    /\ op.res.tag = "return" =>
         trace = <<Ev("create_engine", op.args, "ok"), Ev("connect", op.args, "ok"),
                   Ev("close", op.args, "ok")>>
    /\ \A i \in 1..Len(trace) : trace[i].out # "ok" => Wraps(op.res, trace[i].out)

\* C7: a call of create_db_engine with a non-empty URI (directly, or from
\* Connector once the URI is built) goes through create_engine exactly once and
\* opens at most one connection; when it returns, exactly one connection was
\* opened and exactly one closed; when connect fails with the client's
\* OperationalError (an unreachable host) the call ends with SQLAlchemyError
\* after that one connect: no second connect, no close.
C7_SingleAttempt ==
  (\/ op.name = "create_db_engine" /\ op.args # None /\ op.args # <<>>
   \/ op.name = "Connector" /\ Count("create_connection_string") = 1
        /\ trace[1].out = "return")
    => /\ Count("create_engine") = 1
       /\ Count("connect") <= 1
       /\ Count("close") <= 1
       /\ op.res.tag = "return" => Count("connect") = 1 /\ Count("close") = 1
       /\ \A i \in 1..Len(trace) :
            (trace[i].fn = "connect" /\ trace[i].out = "OperationalError")
              => /\ Wraps(op.res, "OperationalError")
                 /\ Count("connect") = 1
                 /\ Count("close") = 0

C7_Witness ==
  /\ op.name = "create_db_engine"
  /\ Len(trace) = 2
  /\ trace[2] = Ev("connect", op.args, "OperationalError")
  /\ Wraps(op.res, "OperationalError")

\* C8: execute_query hands query and params unchanged to the client, once; it
\* returns the client's result, and whatever the client raises reaches the
\* caller as SQLAlchemyError carrying it.
C8_ExecutePassThrough ==
  op.name = "execute_query" =>
    /\ Len(trace) = 1
    /\ trace[1].fn = "read_sql_query"
    /\ trace[1].arg.sql = op.args.query
    /\ trace[1].arg.params = op.args.params
    /\ trace[1].out = "ok" => op.res.tag = "return"
    /\ trace[1].out # "ok" => Wraps(op.res, trace[1].out)

\* The file at the path of the latest AutoConnector call.
FileUsed == fs[op.args]

\* The file leaves out a variable AutoConnector requires.
LacksRequired(file) ==
  \/ \E v \in EnvVars \ {"CONNECTOR_DB_DRIVER"} : file.vars[v] = None
  \/ file.vars["CONNECTOR_DB_TYPE"] = <<"m","s","s","q","l">>
       /\ file.vars["CONNECTOR_DB_DRIVER"] = None

ConfigurationFailure(r) ==
  r.tag = "raise" /\ r.exc \in {"FileNotFoundError", "EnvironmentVariableNotFoundError"}

\* C9: AutoConnector on a missing file, or on a file that leaves out a required
\* variable, fails with a configuration failure before the URI is built and
\* before the client is called; the stages run in the order load, build, open,
\* and a stage that fails ends the call.
C9_ConfigurationFirst ==
  op.name = "AutoConnector" =>
    /\ (~FileUsed.exists \/ LacksRequired(FileUsed))
         => /\ ConfigurationFailure(op.res)
            /\ Count("create_connection_string") = 0
            /\ ClientCalls = {}
    /\ \A i, j \in 1..Len(trace) :
         /\ (trace[i].fn \in {"load_dotenv_file", "load_env_var"}
             /\ trace[j].fn = "create_connection_string") => i < j
         /\ (trace[i].fn = "create_connection_string" /\ j \in ClientCalls) => i < j
         /\ (trace[i].out \notin {"ok", "return"}) => j <= i

\* C10: the credentials AutoConnector(env_file) builds its URI from are the
\* values env_file sets, whatever was constructed in the process before.
C10_CredentialsFromFile ==
  op.name = "AutoConnector" =>
    \A i \in 1..Len(trace) :
      trace[i].fn = "create_connection_string" =>
        /\ FileUsed.vars["CONNECTOR_DB_TYPE"] # None
             => trace[i].arg.db_type = FileUsed.vars["CONNECTOR_DB_TYPE"]
        /\ FileUsed.vars["CONNECTOR_DB_SERVER"] # None
             => trace[i].arg.db_server = FileUsed.vars["CONNECTOR_DB_SERVER"]
        /\ FileUsed.vars["CONNECTOR_DB_DATABASE"] # None
             => trace[i].arg.db_database = FileUsed.vars["CONNECTOR_DB_DATABASE"]
        /\ FileUsed.vars["CONNECTOR_DB_USERNAME"] # None
             => trace[i].arg.db_username = FileUsed.vars["CONNECTOR_DB_USERNAME"]
        /\ FileUsed.vars["CONNECTOR_DB_PASSWORD"] # None
             => trace[i].arg.db_password = FileUsed.vars["CONNECTOR_DB_PASSWORD"]

====
